---- MODULE Spec2Model ----
(***************************************************************************)
(* A model of soap (src/soap.py): the main loop of game(), the Center      *)
(* class, the cell-center physics, the input dispatch and the drawing of   *)
(* the Voronoi partition.                                                  *)
(*                                                                         *)
(* Numbers.  The program computes on float64 vectors: binary floating      *)
(* point, every operation rounded to nearest, ties to even.  The model     *)
(* computes in the same way on a smaller format: a number is an integer    *)
(* count of units of 1/Scale pixel, and the format holds the integers      *)
(* m * 2^k with a mantissa m of Mant bits, so that the spacing of the      *)
(* numbers grows with their size as it does for float64.  Every operation  *)
(* rounds its exact result to the format.  A vector is a pair <<x, y>>.    *)
(***************************************************************************)
EXTENDS Integers, Sequences, FiniteSets, TLC

----------------------------------------------------------------------------
(* Floating-point arithmetic *)

\* The bits of a mantissa (53 in float64).
Mant == 14
MantMax == 2 ^ Mant - 1
\* The bits below one pixel, and the units per pixel.
Frac == 20
Scale == 2 ^ Frac

Abs(a) == IF a < 0 THEN -a ELSE a
Sgn(a) == IF a < 0 THEN -1 ELSE IF a > 0 THEN 1 ELSE 0
Max2(a, b) == IF a < b THEN b ELSE a
\* a / b truncated toward zero (b > 0).
TruncDiv(a, b) == Sgn(a) * (Abs(a) \div b)
\* The powers of two of the machine integers.
Pow2Tab == [k \in 0..30 |-> 2 ^ k]
Pow2(k) == Pow2Tab[k]

\* The largest root whose square is a machine integer.
RootMax == 46340
\* The last bit of a square root.
RootBits == 15

\* The root found so far is r; the bits from bit down are still to be found.
RECURSIVE SqrtBits(_, _, _)
SqrtBits(n, r, bit) ==
    IF bit < 0 THEN r
    ELSE LET t == r + Pow2(bit)
         IN  SqrtBits(n, IF t <= RootMax /\ t * t <= n THEN t ELSE r, bit - 1)
\* floor(sqrt(n)), 0 <= n < 2^31.
ISqrt(n) == SqrtBits(n, 0, RootBits)
\* sqrt(n) rounded to the nearest integer.
RSqrt(n) == LET r == ISqrt(n) IN IF n - r * r > r THEN r + 1 ELSE r

\* The exponent of n >= 0, known to lie in lo..hi.
RECURSIVE ExpIn(_, _, _)
ExpIn(n, lo, hi) ==
    IF lo = hi THEN lo
    ELSE IF n < Pow2Tab[Mant + (lo + hi) \div 2]
    THEN ExpIn(n, lo, (lo + hi) \div 2)
    ELSE ExpIn(n, (lo + hi) \div 2 + 1, hi)
\* The exponent of n >= 0: the halvings that bring it into a mantissa.
Exp(n) == IF n <= MantMax THEN 0 ELSE ExpIn(n, 1, 31 - Mant)
Mantissa(n) == n \div Pow2(Exp(n))

\* n / d rounded to the nearest integer, ties to even (n >= 0, d > 0).
RoundDiv(n, d) ==
    LET q == n \div d
        r == n % d
    IN  IF r > d - r \/ (r = d - r /\ q % 2 = 1) THEN q + 1 ELSE q

\* p * 2^sh rounded to the format (p >= 0).
FlShift(p, sh) ==
    LET h == Max2(Exp(p), -sh)
    IN  IF h > 30 THEN 0 ELSE RoundDiv(p, Pow2(h)) * Pow2(h + sh)
\* n rounded to the format.
Fl(n) == Sgn(n) * FlShift(Abs(n), 0)

\* a * b for a factor b without dimension, itself in units of 1/Scale.
FMul(a, b) ==
    LET ea == Exp(Abs(a))
        eb == Exp(Abs(b))
    IN  Sgn(a) * Sgn(b) * FlShift((Abs(a) \div Pow2(ea)) * (Abs(b) \div Pow2(eb)),
                                  ea + eb - Frac)

\* The quotient of the mantissas am / bm as a mantissa and its exponent.
MantDiv(am, bm) ==
    LET j == CHOOSE i \in 0..(2 * Mant) :
                 /\ (am * Pow2(i)) \div bm >= Pow2(Mant - 1)
                 /\ i > 0 => (am * Pow2(i - 1)) \div bm < Pow2(Mant - 1)
    IN  <<RoundDiv(am * Pow2(j), bm), -j>>
\* a / b, without dimension, in units of 1/Scale (a >= 0, b > 0).
FDiv(a, b) ==
    IF a = 0 THEN 0
    ELSE LET ea == Exp(a)
             eb == Exp(b)
             q  == MantDiv(a \div Pow2(ea), b \div Pow2(eb))
         IN  FlShift(q[1], q[2] + ea - eb + Frac)

\* numpy.linalg.norm of a 2-vector: sqrt(x*x + y*y).  The squares are taken
\* on the mantissas, the common exponent is put back on the root.
norm(v) ==
    LET k  == Pow2(Exp(Max2(Abs(v[1]), Abs(v[2]))))
        x  == RoundDiv(Abs(v[1]), k)
        y  == RoundDiv(Abs(v[2]), k)
        sq == Fl(Fl(x * x) + Fl(y * y))
    IN  Fl(RSqrt(sq)) * k

Range(f) == {f[i] : i \in DOMAIN f}

VecAdd(u, v) == <<Fl(u[1] + v[1]), Fl(u[2] + v[2])>>
VecSub(u, v) == <<Fl(u[1] - v[1]), Fl(u[2] - v[2])>>
Zero2 == <<0, 0>>

----------------------------------------------------------------------------
(* Game constants *)

\* max_vel = 15.0, in pixels per frame and in units.
max_vel == 15
MaxVelU == max_vel * Scale
\* window_dim = array([800.0, 800.0]), in pixels and in units.
window_dim == 800
WindowU == window_dim * Scale
\* fric = .97 = FricNum / FricDen, and the float nearest to it.
FricNum == 97
FricDen == 100
fric == Fl(RoundDiv(FricNum * Scale, FricDen))
\* The jitter threshold of friction() is .01 = 1/JitterDen.
JitterDen == 100
JitterEps == Fl(RoundDiv(Scale, JitterDen))
\* The leading constant of poke_power.
PokeConst == 100000

----------------------------------------------------------------------------
(* class Center: the methods as functions on the velocity / the record *)

\* velocity *= max_vel / magnitude, when magnitude > max_vel.
Limit(v) ==
    LET magnitude == norm(v)
        s         == FDiv(MaxVelU, magnitude)
    IN  IF magnitude > MaxVelU
        THEN <<FMul(v[1], s), FMul(v[2], s)>>
        ELSE v

\* The jitter line left out: the component as it is.
JitterKept(a) == a
\* self.velocity[abs(self.velocity) < .01] = 0.0, on one component.
Jitter(a) == IF Abs(a) < JitterEps THEN 0 ELSE a

\* friction() without its jitter line.
friction_no_jitter(v) ==
    Limit(<<FMul(v[1], fric), FMul(v[2], fric)>>)

\* Center.friction, on the velocity.
friction(v) ==
    LET scaled == <<FMul(v[1], fric), FMul(v[2], fric)>>
        still  == <<Jitter(scaled[1]), Jitter(scaled[2])>>
    IN  Limit(still)

\* Center.delta_velocity, on the velocity.
delta_velocity(v, delta) == Limit(VecAdd(v, delta))

\* Center.move, on the center.
move(c) == [c EXCEPT !.loc = VecAdd(c.loc, c.velocity)]

----------------------------------------------------------------------------
(* poke *)

\* The range of the model's numbers: a poke closer than PokeNear pixels gets
\* the impulse of a poke from PokeNear pixels in the same direction,
\* PokeSat.  delta_velocity() limits the sum to max_vel in both cases.
PokeNear == 10
PokeSat == (PokeConst \div (PokeNear * PokeNear)) * Scale

\* 100000 * d / distance**3 for one component d >= 0 of the difference.
PokePart(d, distance) ==
    LET num  == Fl(PokeConst * Mantissa(d))
        dm   == Mantissa(distance)
        cube == Fl(Mantissa(Fl(dm * dm)) * dm)
        q    == MantDiv(Mantissa(num), Mantissa(cube))
    IN  IF d = 0 THEN 0
        ELSE FlShift(q[1],
                     q[2] + Exp(num) + Exp(d) - Exp(cube) - Exp(Fl(dm * dm))
                          - 3 * Exp(distance) + 3 * Frac)

\* poke_power(poke_loc, center_loc): 100000 * difference / distance**3, and 0
\* when the distance is 0.
poke_power(poke_loc, center_loc) ==
    LET difference == VecSub(center_loc, poke_loc)
        distance   == norm(difference)
        Part(d)    == IF distance < PokeNear * Scale
                      THEN FMul(PokeSat, FDiv(Abs(d), distance))
                      ELSE PokePart(Abs(d), distance)
    IN  IF distance # 0
        THEN <<Sgn(difference[1]) * Part(difference[1]),
               Sgn(difference[2]) * Part(difference[2])>>
        ELSE Zero2

----------------------------------------------------------------------------
(* The state of game() *)

VARIABLES
    centers,        \* the set of Center objects: object id -> [loc, velocity]
    color_center,   \* the color center: [loc, velocity]
    booleans_dict,  \* the boolean flags
    palette,        \* the active palette, an entry of palettes
    window,         \* what the last frame drew on the display surface
    vor,            \* what the geometry call of the last frame gave
    last,           \* the locals of the last get_user_input() (the events
                    \* read, the cursor) and move_centers() (oob, the masks)
    pc,             \* the position of the main loop: "draw" at the test of
                    \* the while, "input", "move", "done" after the loop,
                    \* "raised" when an exception has ended game()
    queue,          \* the events pygame has queued and the loop has not read
    frames,         \* the number of frames presented since the first state
    posted          \* the number of events that have arrived since then

vars == <<centers, color_center, booleans_dict, palette, window, vor, last,
          pc, queue, frames, posted>>

\* The part of the state the input handlers and move_centers() work on.
State == [centers |-> centers, color_center |-> color_center,
          booleans_dict |-> booleans_dict, palette |-> palette]

\* Bounds of the model.
number_of_centers == 2
MaxFrames == 3
MaxEvents == 2

\* palettes: the seven lambdas, by what they compute.
palettes == <<"rgb", "r_r_255", "r_g_155", "r_g_g", "r_r_r", "r_r_b",
              "155_100_r">>

\* Event types and codes of pygame 1.x, as get_user_input() compares them.
QUIT == 12
KEYDOWN == 2
KEYUP == 3
MOUSEBUTTONDOWN == 5
K_w == 119
K_a == 97
K_s == 115
K_d == 100
K_SPACE == 32
K_r == 114
K_v == 118
K_h == 104
K_b == 98
K_f == 102
K_o == 111
K_UP == 273
K_ESCAPE == 27
wasd == {K_a, K_s, K_d, K_w}

Event(t, c) == [type |-> t, code |-> c]

\* booleans_dict as game() builds it.
InitialBooleans ==
    [voronoi_dual |-> FALSE, bouncing |-> TRUE, fill |-> TRUE,
     outline |-> TRUE, show_help |-> TRUE, running |-> TRUE,
     centers_visible |-> FALSE, up |-> FALSE, down |-> FALSE,
     left |-> FALSE, right |-> FALSE]

Center(loc, velocity) == [loc |-> loc, velocity |-> velocity]

----------------------------------------------------------------------------
(* Input functions *)

\* reset(): number_of_centers new centers, at the random places rnd, at rest.
\* The ways to place the new centers at the places of the sequence locs, up
\* to the order of the centers (centers is a set): place by place.
Placements(locs) ==
    {rnd \in [1..number_of_centers -> Range(locs)] :
        \A i \in 1..(number_of_centers - 1) :
            \E j, k \in 1..Len(locs) :
                j <= k /\ rnd[i] = locs[j] /\ rnd[i + 1] = locs[k]}
NewCenters(rnd) == [i \in 1..number_of_centers |-> Center(rnd[i], Zero2)]
reset(st, rnd) == [st EXCEPT !.centers = NewCenters(rnd)]

\* A toggle that switches its flag on.
ToggleOn(st, flag) == [st EXCEPT !.booleans_dict[flag] = TRUE]
\* booleans_dict[flag] = not booleans_dict[flag]
Toggle(st, flag) == [st EXCEPT !.booleans_dict[flag] = ~@]
toggle_dual(st) == Toggle(st, "voronoi_dual")
toggle_centers(st) == Toggle(st, "centers_visible")
toggle_bouncing(st) == Toggle(st, "bouncing")
toggle_fill(st) == Toggle(st, "fill")
toggle_outline(st) == Toggle(st, "outline")
toggle_help(st) == Toggle(st, "show_help")
no_key(st) == st

\* palettes.index(p), from 0.
PaletteIndex(p) ==
    (CHOOSE i \in 1..Len(palettes) :
        palettes[i] = p /\ \A j \in 1..(i - 1) : palettes[j] # p) - 1

\* next_palette() without the remainder: the last palette stays.
next_palette_no_wrap(st) ==
    [st EXCEPT !.palette =
        palettes[IF PaletteIndex(st.palette) + 1 < Len(palettes)
                 THEN PaletteIndex(st.palette) + 2
                 ELSE Len(palettes)]]

\* next_palette()
next_palette(st) ==
    [st EXCEPT !.palette =
        palettes[((PaletteIndex(st.palette) + 1) % Len(palettes)) + 1]]

\* color_move_start(key) and color_move_stop(key)
MoveFlag(st, key, value) ==
    IF key = K_w THEN [st EXCEPT !.booleans_dict.up = value]
    ELSE IF key = K_a THEN [st EXCEPT !.booleans_dict.left = value]
    ELSE IF key = K_s THEN [st EXCEPT !.booleans_dict.down = value]
    ELSE IF key = K_d THEN [st EXCEPT !.booleans_dict.right = value]
    ELSE st
color_move_start(st, key) == MoveFlag(st, key, TRUE)
color_move_stop(st, key) == MoveFlag(st, key, FALSE)

\* poke(loc) without its last line: the color center gets no impulse.
poke_cells_only(st, loc) ==
    [st EXCEPT
        !.centers = [i \in DOMAIN st.centers |->
            [st.centers[i] EXCEPT
                !.velocity = delta_velocity(@, poke_power(loc, st.centers[i].loc))]]]

\* poke(loc): every center and the color center get their impulse.
poke(st, loc) ==
    [st EXCEPT
        !.centers = [i \in DOMAIN st.centers |->
            [st.centers[i] EXCEPT
                !.velocity = delta_velocity(@, poke_power(loc, st.centers[i].loc))]],
        !.color_center.velocity =
            delta_velocity(@, poke_power(loc, st.color_center.loc))]

\* keydown_dict.get(event.key, no_key)()
keydown_dict(st, key, rnd) ==
    CASE key = K_r      -> reset(st, rnd)
      [] key = K_v      -> toggle_dual(st)
      [] key = K_h      -> toggle_centers(st)
      [] key = K_b      -> toggle_bouncing(st)
      [] key = K_f      -> toggle_fill(st)
      [] key = K_o      -> toggle_outline(st)
      [] key = K_UP     -> next_palette(st)
      [] key = K_ESCAPE -> toggle_help(st)
      [] OTHER          -> no_key(st)

\* centers.add(Center(...)): the new object gets the first free id.
AddCenter(st, loc) ==
    LET id == CHOOSE i \in 1..(Cardinality(DOMAIN st.centers) + 1) :
                  i \notin DOMAIN st.centers
    IN  [st EXCEPT !.centers =
            [i \in DOMAIN st.centers \cup {id} |->
                IF i = id THEN Center(loc, Zero2) ELSE st.centers[i]]]

\* The body of the for loop of get_user_input(), for one event.  mouse is
\* what mouse_xy() returns, rnd what random_sample() gives a reset.
HandleEvent(st, event, mouse, rnd) ==
    IF event.type = QUIT
    THEN [st EXCEPT !.booleans_dict.running = FALSE]
    ELSE IF event.type = KEYDOWN
    THEN LET st1 == keydown_dict(st, event.code, rnd)
         IN  IF event.code \in wasd THEN color_move_start(st1, event.code)
             ELSE IF event.code = K_SPACE THEN poke(st1, st1.color_center.loc)
             ELSE st1
    ELSE IF event.type = KEYUP
    THEN IF event.code \in wasd THEN color_move_stop(st, event.code) ELSE st
    ELSE IF event.type = MOUSEBUTTONDOWN
    THEN IF event.code = 1 THEN poke(st, mouse)
         ELSE IF event.code = 3 THEN AddCenter(st, mouse)
         ELSE st
    ELSE st

\* The for loop with a break at the quit event.
RECURSIVE DrainToQuit(_, _, _, _)
DrainToQuit(st, events, mouse, rnd) ==
    IF events = <<>> THEN st
    ELSE IF Head(events).type = QUIT
    THEN HandleEvent(st, Head(events), mouse, rnd)
    ELSE DrainToQuit(HandleEvent(st, Head(events), mouse, rnd), Tail(events),
                     mouse, rnd)

\* for event in pygame.event.get(): the events in arrival order.
RECURSIVE Drain(_, _, _, _)
Drain(st, events, mouse, rnd) ==
    IF events = <<>> THEN st
    ELSE Drain(HandleEvent(st, Head(events), mouse, rnd), Tail(events),
               mouse, rnd)

----------------------------------------------------------------------------
(* move_centers *)

\* (center.loc < max_vel) | (center.loc > window_dim - max_vel), per axis.
\* The reversal only once the center is past the wall.
PastWall(x) == x < 0 \/ x > WindowU
NearWall(x) == x < MaxVelU \/ x > WindowU - MaxVelU
BounceMask(loc) == <<NearWall(loc[1]), NearWall(loc[2])>>

\* center.velocity[mask] *= -1
Reverse(velocity, mask) ==
    <<IF mask[1] THEN -velocity[1] ELSE velocity[1],
      IF mask[2] THEN -velocity[2] ELSE velocity[2]>>

\* The test with <= for <: a center on the boundary counts as out of bounds.
OnOrOutOfBounds(loc) == \E a \in 1..2 : loc[a] <= 0 \/ WindowU <= loc[a]

\* ((center.loc < 0) | (window_dim < center.loc)).any()
OutOfBounds(loc) == \E a \in 1..2 : loc[a] < 0 \/ WindowU < loc[a]

\* center.friction(); center.move()
FrictionAndMove(c) == move([c EXCEPT !.velocity = friction(@)])

\* The movement of the cell centers with bouncing on.
BounceCenters(cs) ==
    [i \in DOMAIN cs |->
        FrictionAndMove([cs[i] EXCEPT
            !.velocity = Reverse(@, BounceMask(cs[i].loc))])]

\* The movement of the cell centers with bouncing off.
DeleteCenters(cs) ==
    LET oob == {i \in DOMAIN cs : OutOfBounds(cs[i].loc)}
    IN  [i \in DOMAIN cs \ oob |-> FrictionAndMove(cs[i])]

\* .5, the speed a held direction key adds in a frame.
KeyDelta == Scale \div 2

\* if booleans_dict[...]: color_center.delta_velocity(...)
Held(flag, v, delta) == IF flag THEN delta_velocity(v, delta) ELSE v

\* The delta_velocity() calls for the direction flags, in the order of the
\* code: up, down, left, right.
Steer(v, b) ==
    Held(b.right,
         Held(b.left,
              Held(b.down,
                   Held(b.up, v, <<0, -KeyDelta>>),
                   <<0, KeyDelta>>),
              <<-KeyDelta, 0>>),
         <<KeyDelta, 0>>)

\* numpy's remainder x % b on floats, b > 0: fmod(x, b), which has the sign
\* of x and is exact, and b added to it when it is negative.
Remainder(x, b) ==
    LET r == Sgn(x) * (Abs(x) % b)
    IN  IF r < 0 THEN Fl(r + b) ELSE r

\* color_center.loc %= window_dim
Wrap(loc) == <<Remainder(loc[1], WindowU), Remainder(loc[2], WindowU)>>

\* The movement of the color center.
MoveColorCenter(c, b) ==
    LET moved == IF ~(b.up \/ b.down \/ b.left \/ b.right)
                 THEN FrictionAndMove(c)
                 ELSE move([c EXCEPT !.velocity = Steer(@, b)])
    IN  [moved EXCEPT !.loc = Wrap(@)]

\* move_centers(): the new centers and color center.
move_centers(st) ==
    [st EXCEPT
        !.centers = IF st.booleans_dict.bouncing THEN BounceCenters(@)
                    ELSE DeleteCenters(@),
        !.color_center = MoveColorCenter(@, st.booleans_dict)]

\* The locals of that call: oob, and the mask of each center.
Locals(st) ==
    IF st.booleans_dict.bouncing
    THEN [oob |-> {},
          mask |-> [i \in DOMAIN st.centers |-> BounceMask(st.centers[i].loc)]]
    ELSE [oob |-> {i \in DOMAIN st.centers : OutOfBounds(st.centers[i].loc)},
          mask |-> <<>>]

----------------------------------------------------------------------------
(* Drawing *)

\* The exceptions scipy raises when Qhull cannot build the partition, and
\* when the points are no array it can work on.
QhullError == [kind |-> "QhullError", data |-> <<>>]
ValueError == [kind |-> "ValueError", data |-> <<>>]
\* except (QhullError, ValueError)
Caught == {"QhullError", "ValueError"}
\* No exception is on its way out of a function.
None == "None"
\* No geometry call was made (neither fill nor outline is on).
NoCall == [kind |-> "none", data |-> <<>>]
\* The objects the two constructors return.
Voronoi(regions) == [kind |-> "Voronoi", data |-> regions]
Delaunay(simplices) == [kind |-> "Delaunay", data |-> simplices]
\* The point at infinity in vor.regions.
Infinity == -1
\* The points are 2-vectors; Qhull needs an initial simplex of Dim + 1 points.
Dim == 2

\* What Voronoi(points) or Delaunay(points) may do: raise on too few points;
\* otherwise raise if the library finds the input degenerate (fail) or
\* return one of the results succ.
Geometry(points, fail, succ) ==
    IF Len(points) < Dim + 1 THEN {QhullError} ELSE fail \cup succ

\* points = [center.loc for center in centers]; points.append(color_center.loc)
RECURSIVE LocsOf(_, _)
LocsOf(cs, ids) ==
    IF ids = {} THEN <<>>
    ELSE LET i == CHOOSE j \in ids : \A k \in ids : j <= k
         IN  <<cs[i].loc>> \o LocsOf(cs, ids \ {i})
Points(st) == Append(LocsOf(st.centers, DOMAIN st.centers), st.color_center.loc)


\* The test with the length counted after the removal of -1.
DrawableFinite(reg) ==
    Len(SelectSeq(reg, LAMBDA j : j # Infinity)) > 3
        \/ (Len(reg) = 3 /\ Infinity \notin Range(reg))

\* len(reg) > 3 or (len(reg) == 3 and -1 not in reg)
Drawable(reg) == Len(reg) > 3 \/ (Len(reg) = 3 /\ Infinity \notin Range(reg))
\* [vor.vertices[j] for j in reg if j != -1]
Finite(reg) == SelectSeq(reg, LAMBDA j : j # Infinity)

\* polygons: the region's number (for the center that colors it) and vertices.
RECURSIVE PolygonsFrom(_, _)
PolygonsFrom(regions, i) ==
    IF i > Len(regions) THEN <<>>
    ELSE (IF Drawable(regions[i])
          THEN <<[center |-> i - 1, poly |-> Finite(regions[i])]>>
          ELSE <<>>) \o PolygonsFrom(regions, i + 1)
Polygons(regions) == PolygonsFrom(regions, 1)

\* window.fill((63, 63, 63))
Blank == [fill |-> <<>>, outline |-> <<>>, centers |-> {}, help |-> FALSE]

Colored(shapes, pal) ==
    [i \in 1..Len(shapes) |-> [shape |-> shapes[i], palette |-> pal]]

\* The fill and outline loops of both draw functions.
FillAndOutline(w, st, shapes) ==
    [w EXCEPT
        !.fill = IF st.booleans_dict.fill THEN Colored(shapes, st.palette)
                 ELSE @,
        !.outline = IF st.booleans_dict.outline THEN shapes ELSE @]

\* What a draw function leaves: the window, and the exception that leaves
\* the function with it, if any.
Drawn(w, exception) == [window |-> w, raised |-> exception]

\* draw_voronoi_cells() with except ValueError alone.
draw_voronoi_cells_value_error(w, st, result) ==
    IF result.kind = "ValueError" THEN Drawn(w, None)
    ELSE IF result.kind = "Voronoi"
    THEN Drawn(FillAndOutline(w, st, Polygons(result.data)), None)
    ELSE Drawn(w, result.kind)

\* draw_voronoi_cells(), given what Voronoi(points) did: the except clause
\* returns, the polygons are drawn, or the exception leaves the function.
draw_voronoi_cells(w, st, result) ==
    IF result.kind \in Caught THEN Drawn(w, None)
    ELSE IF result.kind = "Voronoi"
    THEN Drawn(FillAndOutline(w, st, Polygons(result.data)), None)
    ELSE Drawn(w, result.kind)

\* draw_voronoi_dual(), given what Delaunay(points) did.
draw_voronoi_dual(w, st, result) ==
    IF result.kind \in Caught THEN Drawn(w, None)
    ELSE IF result.kind = "Delaunay"
    THEN Drawn(FillAndOutline(w, st, result.data), None)
    ELSE Drawn(w, result.kind)

\* center.loc.astype(int)
Pixel(loc) == <<TruncDiv(loc[1], Scale), TruncDiv(loc[2], Scale)>>

\* draw_centers()
draw_centers(w, st) ==
    [w EXCEPT !.centers = {Pixel(st.centers[i].loc) : i \in DOMAIN st.centers}
                          \cup {Pixel(st.color_center.loc)}]

\* draw_help()
draw_help(w) == [w EXCEPT !.help = TRUE]

\* The drawing part of one iteration of the main loop; an exception that
\* leaves a draw function ends it.
DrawAll(st, result) ==
    LET b  == st.booleans_dict
        d  == IF b.outline \/ b.fill
              THEN IF b.voronoi_dual THEN draw_voronoi_dual(Blank, st, result)
                   ELSE draw_voronoi_cells(Blank, st, result)
              ELSE Drawn(Blank, None)
        w2 == IF b.centers_visible THEN draw_centers(d.window, st)
              ELSE d.window
    IN  IF d.raised # None THEN d
        ELSE Drawn(IF b.show_help THEN draw_help(w2) ELSE w2, None)

\* What the geometry call of a frame may give in the state st.
Results(st, fail, regionLists, simplexLists) ==
    IF ~(st.booleans_dict.outline \/ st.booleans_dict.fill) THEN {NoCall}
    ELSE IF st.booleans_dict.voronoi_dual
    THEN Geometry(Points(st), fail, {Delaunay(x) : x \in simplexLists})
    ELSE Geometry(Points(st), fail, {Voronoi(x) : x \in regionLists})

----------------------------------------------------------------------------
(* The main loop *)

\* The environment: an event arrives.  An event that arrives after the queue
\* was read waits for the next frame, so events are let in before the read,
\* and after the loop has ended.
Post(events) ==
    /\ pc \in {"input", "done"}
    /\ posted < MaxEvents
    /\ \E e \in events : queue' = Append(queue, e)
    /\ posted' = posted + 1
    /\ UNCHANGED <<centers, color_center, booleans_dict, palette, window, vor,
                   last, pc, frames>>

\* while booleans_dict["running"]: the test, and the body up to
\* pygame.display.update().  An exception that leaves a draw function leaves
\* game() as well.
LoopTop(fail, regionLists, simplexLists) ==
    /\ pc = "draw"
    /\ IF booleans_dict.running
       THEN /\ frames < MaxFrames
            /\ \E result \in Results(State, fail, regionLists, simplexLists) :
               \E d \in {DrawAll(State, result)} :
                   /\ vor' = result
                   /\ window' = d.window
                   /\ IF d.raised = None
                      THEN frames' = frames + 1 /\ pc' = "input"
                      ELSE frames' = frames /\ pc' = "raised"
       ELSE /\ pc' = "done"
            /\ UNCHANGED <<window, vor, frames>>
    /\ UNCHANGED <<centers, color_center, booleans_dict, palette, last, queue,
                   posted>>

HasReset(events) ==
    \E i \in 1..Len(events) : events[i] = Event(KEYDOWN, K_r)
HasMouse(events) ==
    \E i \in 1..Len(events) : events[i].type = MOUSEBUTTONDOWN

\* get_user_input(): reads the whole queue.
GetUserInput(mice, resetLocs) ==
    /\ pc = "input"
    /\ \E mouse \in IF HasMouse(queue) THEN mice
                    ELSE {CHOOSE m \in mice : TRUE} :
       \E rnd \in IF HasReset(queue) THEN Placements(resetLocs)
                  ELSE {[i \in 1..number_of_centers |-> Zero2]} :
           \E st \in {Drain(State, queue, mouse, rnd)} :
               /\ centers' = st.centers
               /\ color_center' = st.color_center
               /\ booleans_dict' = st.booleans_dict
               /\ palette' = st.palette
               /\ last' = [last EXCEPT !.events = queue, !.mouse = mouse]
    /\ queue' = <<>>
    /\ pc' = "move"
    /\ UNCHANGED <<window, vor, frames, posted>>

\* move_centers(), the last statement of the loop body.
MoveCenters ==
    /\ pc = "move"
    /\ \E st \in {move_centers(State)} :
           /\ centers' = st.centers
           /\ color_center' = st.color_center
    /\ \E locals \in {Locals(State)} :
           last' = [last EXCEPT !.oob = locals.oob, !.mask = locals.mask]
    /\ pc' = "draw"
    /\ UNCHANGED <<booleans_dict, palette, window, vor, queue, frames, posted>>

----------------------------------------------------------------------------
(* Specifications *)

Px(x, y) == <<x * Scale, y * Scale>>

InitAt(cs, cc, b, p) ==
    /\ centers = cs
    /\ color_center = cc
    /\ booleans_dict = b
    /\ palette = p
    /\ window = Blank
    /\ vor = NoCall
    /\ last = [events |-> <<>>, mouse |-> Zero2, oob |-> {}, mask |-> <<>>]
    /\ pc = "draw"
    /\ queue = <<>>
    /\ frames = 0
    /\ posted = 0

\* The state at the test of the while after an iteration that found no event
\* in the queue: the iteration started with the centers cs and the color
\* center cc, the geometry call gave result, the cursor was at mouse.
AfterIdleFrame(cs, cc, b, p, result, mouse) ==
    \E prev \in {[centers |-> cs, color_center |-> cc, booleans_dict |-> b,
                  palette |-> p]} :
    \E st \in {move_centers(prev)} : \E locals \in {Locals(prev)} :
        /\ centers = st.centers
        /\ color_center = st.color_center
        /\ booleans_dict = b
        /\ palette = p
        /\ window = DrawAll(prev, result).window
        /\ vor = result
        /\ last = [events |-> <<>>, mouse |-> mouse,
                   oob |-> locals.oob, mask |-> locals.mask]
        /\ pc = "draw"
        /\ queue = <<>>
        /\ frames = 0
        /\ posted = 0

\* The state game() builds before the main loop, the centers at the random
\* places reset() gave them.
Start(resetLocs) ==
    \E rnd \in Placements(resetLocs) :
        InitAt(NewCenters(rnd),
               Center(<<WindowU \div 2, WindowU \div 2>>, Zero2),
               InitialBooleans, palettes[1])

\* Places random_sample(2) * (window_dim - 2 * max_vel) + max_vel can give:
\* the lowest one, and the middle of the window.
ResetLocs == <<<<MaxVelU, WindowU \div 2>>, <<WindowU \div 2, WindowU \div 2>>>>
\* Cursor positions: on the left edge and 100 pixels from it, a pixel below
\* the middle line.
Mice == {Px(0, 401), Px(100, 401)}
\* The events of the physics: pokes, creations, reset, bouncing, a direction.
PhysicsEvents ==
    {Event(MOUSEBUTTONDOWN, 1), Event(MOUSEBUTTONDOWN, 3),
     Event(KEYDOWN, K_SPACE), Event(KEYDOWN, K_r), Event(KEYDOWN, K_b),
     Event(KEYDOWN, K_a)}
\* The geometry library's results in the physics runs: one triangle region.
OneRegion == {<< <<0, 1, 2>> >>}
OneSimplex == {<< <<0, 1, 2>> >>}

Init == Start(ResetLocs)

Next ==
    \/ Post(PhysicsEvents)
    \/ LoopTop({}, OneRegion, OneSimplex)
    \/ GetUserInput(Mice, ResetLocs)
    \/ MoveCenters

Spec == Init /\ [][Next]_vars

----------------------------------------------------------------------------
(* Claims on the physics, checked under Spec; the cap of C1 under SpecView,
   whose cursor is 61 pixels left of the middle of the window *)

AllCenters == {centers[i] : i \in DOMAIN centers} \cup {color_center}
Steering ==
    booleans_dict.up \/ booleans_dict.down \/ booleans_dict.left
        \/ booleans_dict.right

\* C1: after any sequence of input events and frame advances every center
\* and the color center has a velocity of norm at most max_vel; the sign
\* flip of the bounce keeps the norm within the cap as well.
C1_VelocityCapped ==
    \A c \in AllCenters :
        /\ norm(c.velocity) <= MaxVelU
        /\ norm(Reverse(c.velocity, BounceMask(c.loc))) <= MaxVelU

\* C1, the case that breaks it (a run of SpecView): the first event is a left
\* click 61 pixels left of the color center, which is at rest in the middle
\* of the window; the limit of delta_velocity() leaves it faster than max_vel.
C1_Overshoot ==
    /\ pc = "move"
    /\ frames = 1
    /\ last.events = <<Event(MOUSEBUTTONDOWN, 1)>>
    /\ last.mouse = Px(339, 400)
    /\ color_center.loc = Px(400, 400)
    /\ color_center.velocity[2] = 0
    /\ color_center.velocity[1] > MaxVelU

\* C2: with bouncing on, a center whose next position (its position plus its
\* friction-scaled velocity) lies outside the arena on an axis has that
\* velocity component reversed before friction() and move() are applied.
C2_BounceBeforeMove ==
    [][(pc = "move" /\ booleans_dict.bouncing) =>
        \A i \in DOMAIN centers : \A a \in 1..2 :
            LET c    == centers[i]
                next == c.loc[a] + friction(c.velocity)[a]
            IN  (next < 0 \/ next > WindowU) =>
                    \E mask \in {m \in BOOLEAN \X BOOLEAN : m[a]} :
                        /\ i \in DOMAIN centers'
                        /\ centers'[i] =
                               FrictionAndMove(
                                   [c EXCEPT !.velocity = Reverse(@, mask)])]_vars

\* C2 witness: a frame has reversed the x velocity of a moving center that
\* would otherwise have left the arena (its position before the move is
\* loc - velocity, the velocity it would have had is -velocity).
C2_Witness ==
    /\ pc = "draw"
    /\ booleans_dict.bouncing
    /\ \E i \in DOMAIN centers \cap DOMAIN last.mask :
           LET c == centers[i]
           IN  /\ last.mask[i][1]
               /\ c.velocity[1] # 0
               /\ \/ c.loc[1] - 2 * c.velocity[1] < 0
                  \/ c.loc[1] - 2 * c.velocity[1] > WindowU

InArena(loc) == \A a \in 1..2 : 0 <= loc[a] /\ loc[a] <= WindowU

\* C3: with bouncing off, move_centers() removes exactly the centers that are
\* strictly outside the arena on some axis before the move, keeps every other
\* center (also one on the boundary) and applies friction and move to the
\* kept centers only.
C3_DeleteOutOfBounds ==
    [][(pc = "move" /\ ~booleans_dict.bouncing) =>
        /\ DOMAIN centers' = {i \in DOMAIN centers : InArena(centers[i].loc)}
        /\ \A i \in DOMAIN centers' :
               centers'[i] = FrictionAndMove(centers[i])]_vars

\* C3 witness: a frame with bouncing off has removed a center and kept
\* another.
C3_Witness ==
    /\ pc = "draw"
    /\ ~booleans_dict.bouncing
    /\ last.oob # {}
    /\ DOMAIN centers # {}

\* What poke(loc) does to one center: nothing when the center is at loc, its
\* impulse otherwise.
PokeEffect(loc, before, after) ==
    /\ after.loc = before.loc
    /\ IF before.loc = loc
       THEN after.velocity = before.velocity
       ELSE /\ poke_power(loc, before.loc) # Zero2
            /\ after.velocity =
                   delta_velocity(before.velocity, poke_power(loc, before.loc))
PokeEffects(loc) ==
    /\ DOMAIN centers' = DOMAIN centers
    /\ \A i \in DOMAIN centers : PokeEffect(loc, centers[i], centers'[i])
    /\ PokeEffect(loc, color_center, color_center')

C8_NoJitter ==
    pc = "draw" =>
        \A c \in {centers[i] : i \in DOMAIN centers}
                 \cup (IF Steering THEN {} ELSE {color_center}) :
            \A a \in 1..2 : Abs(c.velocity[a]) < JitterEps => c.velocity[a] = 0

\* C8 witness: a frame has stopped the small y velocity a click one pixel off
\* the middle line gave a center on that line, and left its x velocity.
C8_Witness ==
    /\ pc = "draw"
    /\ frames = 1
    /\ last.events = <<Event(MOUSEBUTTONDOWN, 1)>>
    /\ last.mouse = Px(100, 401)
    /\ \E i \in DOMAIN centers :
           /\ centers[i].loc[2] = WindowU \div 2
           /\ centers[i].velocity[2] = 0
           /\ centers[i].velocity[1] > 0

----------------------------------------------------------------------------
(* The color center at the edge of the window, SpecFocus *)

\* A state of a run of Spec's kind, 57 frames after its start: the player
\* has held a for 21 frames, a and d for two, a for six and d for 27 and
\* has let go, which has taken the color center at speeds that are multiples
\* of .5 to x = 14.5 and to rest; the cell centers have not been poked.
Parked == Center(<<(29 * Scale) \div 2, WindowU \div 2>>, Zero2)
InitFocus ==
    \E rnd \in Placements(ResetLocs) : \E regions \in OneRegion :
        AfterIdleFrame(NewCenters(rnd), Parked, InitialBooleans, palettes[1],
                       Voronoi(regions), Px(100, 401))

\* The cursor 30.5 pixels right of the parked color center.
FocusMice == {Px(45, 400)}
\* The events on the color center: direction keys, pokes, bouncing.
FocusEvents ==
    {Event(KEYDOWN, K_d), Event(KEYUP, K_d), Event(KEYDOWN, K_a),
     Event(KEYDOWN, K_w), Event(KEYDOWN, K_SPACE), Event(MOUSEBUTTONDOWN, 1),
     Event(KEYDOWN, K_b)}

NextFocus ==
    \/ Post(FocusEvents)
    \/ LoopTop({}, OneRegion, OneSimplex)
    \/ GetUserInput(FocusMice, ResetLocs)
    \/ MoveCenters

SpecFocus == InitFocus /\ [][NextFocus]_vars

InWindow(loc) == \A a \in 1..2 : 0 <= loc[a] /\ loc[a] < WindowU

\* C4: after every move_centers(), whatever the velocity, the direction
\* flags and the bouncing flag, the color center lies in [0, width) x
\* [0, height); it is still there, and its velocity is the one friction() or
\* the direction keys gave it, never reversed by the boundary logic.
C4_FocusInWindow ==
    [][pc = "move" =>
        /\ InWindow(color_center'.loc)
        /\ color_center'.velocity =
               IF Steering THEN Steer(color_center.velocity, booleans_dict)
               ELSE friction(color_center.velocity)]_vars

\* C4, the case that breaks it: d is pressed and the cursor clicked in one
\* frame; the poke leaves the color center a rounding step faster than
\* max_vel to the left, d takes .5 off, the move takes it from 14.5 to just
\* below 0, and the remainder rounds to the width itself.
C4_OnTheEdge ==
    /\ pc = "draw"
    /\ frames = 1
    /\ last.events = <<Event(KEYDOWN, K_d), Event(MOUSEBUTTONDOWN, 1)>>
    /\ color_center.velocity[1] < 0
    /\ color_center.loc[1] = WindowU

----------------------------------------------------------------------------
(* Palettes and quitting, SpecView *)

\* States of a run of Spec's kind in which the player has pressed the up
\* arrow some number of times and nothing else: any palette is active, the
\* centers are where reset() put them, everything is at rest.
InitView ==
    \E rnd \in Placements(ResetLocs) : \E regions \in OneRegion :
        \E p \in Range(palettes) :
            AfterIdleFrame(NewCenters(rnd),
                           Center(<<WindowU \div 2, WindowU \div 2>>, Zero2),
                           InitialBooleans, p, Voronoi(regions),
                           Px(100, 401))

ViewMice == {Px(339, 400)}
ViewEvents ==
    {Event(QUIT, 0), Event(KEYDOWN, K_UP), Event(KEYDOWN, K_v),
     Event(MOUSEBUTTONDOWN, 1)}

NextView ==
    \/ Post(ViewEvents)
    \/ LoopTop({}, OneRegion, OneSimplex)
    \/ GetUserInput(ViewMice, ResetLocs)
    \/ MoveCenters

SpecView == InitView /\ [][NextView]_vars

\* The entry after p in the palette list, the first one after the last.
Successor(p) ==
    LET i == CHOOSE k \in 1..Len(palettes) : palettes[k] = p
    IN  IF i = Len(palettes) THEN palettes[1] ELSE palettes[i + 1]

RECURSIVE Times(_, _)
Times(st, n) == IF n = 0 THEN st ELSE Times(next_palette(st), n - 1)

OnlyUp(events) ==
    /\ events # <<>>
    /\ \A i \in 1..Len(events) : events[i] = Event(KEYDOWN, K_UP)

RECURSIVE Successors(_, _)
Successors(p, n) == IF n = 0 THEN p ELSE Successors(Successor(p), n - 1)

\* C6: next_palette() makes the entry after the current one in the palette
\* list the active palette, the first entry after the last one, and changes
\* nothing else; applied as many times as the list is long it gives the
\* state it started from, whatever the palette.  A frame whose events are
\* all presses of the up arrow moves the palette on by their number and
\* leaves centers, color center and flags to move_centers().
C6_PaletteCycle ==
    /\ [](/\ next_palette(State) = [State EXCEPT !.palette = Successor(@)]
          /\ Times(State, Len(palettes)) = State)
    /\ [][(pc = "input" /\ pc' = "move" /\ OnlyUp(queue)) =>
            /\ palette' = Successors(palette, Len(queue))
            /\ UNCHANGED <<centers, color_center, booleans_dict>>]_vars

\* C6 witness: the frame drawn with the last palette of the list has read
\* one press of the up arrow, and the first palette is active.
C6_Witness ==
    /\ pc = "move"
    /\ last.events = <<Event(KEYDOWN, K_UP)>>
    /\ window.fill # <<>>
    /\ window.fill[1].palette = palettes[Len(palettes)]
    /\ palette = palettes[1]

IsQuit(e) == e.type = QUIT
NotQuit(e) == e.type # QUIT
Quit(events) == \E i \in 1..Len(events) : IsQuit(events[i])

\* C10: once get_user_input() has read a quit event, running is false for
\* good.  The events read with it are all handled, those after it too;
\* move_centers() runs once more; the test of the while then ends the loop.
\* From the quit on no frame is drawn or presented, and no event is taken
\* from the queue.
C10_QuitStops ==
    [][/\ (pc = "input" /\ pc' = "move" /\ Quit(queue)) =>
            \E mouse \in ViewMice : \E rnd \in Placements(ResetLocs) :
                \E st \in {Drain(State, SelectSeq(queue, NotQuit), mouse, rnd)} :
                    /\ ~booleans_dict'.running
                    /\ booleans_dict' = [st.booleans_dict EXCEPT !.running = FALSE]
                    /\ centers' = st.centers
                    /\ color_center' = st.color_center
                    /\ palette' = st.palette
                    /\ pc' = "move"
       /\ ~booleans_dict.running =>
            /\ ~booleans_dict'.running
            /\ UNCHANGED <<window, vor, frames, palette>>
            /\ last'.events = last.events
            /\ Len(queue') >= Len(queue)
            /\ SubSeq(queue', 1, Len(queue)) = queue
            /\ pc \in {"move", "draw", "done"}
            /\ pc = "move" =>
                   /\ pc' = "draw"
                   /\ centers' = move_centers(State).centers
                   /\ color_center' = move_centers(State).color_center
            /\ pc = "draw" =>
                   /\ pc' = "done"
                   /\ UNCHANGED <<centers, color_center>>
            /\ pc = "done" =>
                   /\ pc' = "done"
                   /\ UNCHANGED <<centers, color_center>>]_vars

\* C10 witness: the loop has ended after a frame that read a quit event and
\* a click behind it; the click has set the color center moving, and
\* move_centers() has moved it once.
C10_Witness ==
    /\ pc = "done"
    /\ ~booleans_dict.running
    /\ last.events = <<Event(QUIT, 0), Event(MOUSEBUTTONDOWN, 1)>>
    /\ color_center.velocity # Zero2
    /\ color_center.loc = VecAdd(Px(400, 400), color_center.velocity)

----------------------------------------------------------------------------
(* Drawing the partition, SpecDraw *)

\* A state of a run of Spec's kind two frames after its start: the first
\* frame read a left click at (100, 401) and a press of b, which turned
\* bouncing off; the poke drives the centers that reset() put at the lowest
\* place out of the window.
Leaving(rnd) ==
    LET start == [centers |-> NewCenters(rnd),
                  color_center |->
                      Center(<<WindowU \div 2, WindowU \div 2>>, Zero2),
                  booleans_dict |-> InitialBooleans, palette |-> palettes[1]]
        read  == Drain(start,
                       <<Event(MOUSEBUTTONDOWN, 1), Event(KEYDOWN, K_b)>>,
                       Px(100, 401), rnd)
    IN  move_centers(move_centers(read))

\* What vor.regions may hold: the regions of three points (none bounded), and
\* a list with regions of every length from 0 to 5, with and without the
\* point at infinity.  simplices: one triangle, two triangles.
RegionLists ==
    {<< <<>>, <<-1, 0>>, <<0, -1>>, <<-1, 0>> >>,
     << <<0, 1>>, <<-1, 0, 1>>, <<0, 1, 2>>, <<-1, 0, 1, 2>>, <<3, 1, 0, 2>>,
        <<>>, <<2, -1, 0, 1, 3>>, <<1, 0, -1>> >>}
SimplexLists == {<< <<0, 1, 2>> >>, << <<0, 1, 2>>, <<1, 3, 2>> >>}
Failures == {QhullError, ValueError}

\* The start of a run, and the third frame of the run of Leaving.
InitDraw ==
    \E rnd \in Placements(ResetLocs) :
        \/ InitAt(NewCenters(rnd),
                  Center(<<WindowU \div 2, WindowU \div 2>>, Zero2),
                  InitialBooleans, palettes[1])
        \/ \E regions \in RegionLists : \E st \in {Leaving(rnd)} :
               AfterIdleFrame(st.centers, st.color_center, st.booleans_dict,
                              st.palette, Voronoi(regions), Px(100, 401))

DrawMice == {Px(100, 401)}
DrawEvents ==
    {Event(KEYDOWN, K_v), Event(KEYDOWN, K_f), Event(MOUSEBUTTONDOWN, 3)}

NextDraw ==
    \/ Post(DrawEvents)
    \/ LoopTop(Failures, RegionLists, SimplexLists)
    \/ GetUserInput(DrawMice, ResetLocs)
    \/ MoveCenters

SpecDraw == InitDraw /\ [][NextDraw]_vars

Failed(result) == result.kind \in {"QhullError", "ValueError"}
NothingDrawn(w) == w.fill = <<>> /\ w.outline = <<>>

\* C7: a frame whose geometry call (Voronoi, or Delaunay in dual mode)
\* raises QhullError or ValueError draws no region; the exception does not
\* leave the draw function, so the frame is presented and the loop goes on
\* to get_user_input(); centers, color center, flags and palette are as
\* before the draw.  With at most one center beside the color center the
\* call fails and no region is drawn.
C7_FailedDraw ==
    [][(pc = "draw" /\ booleans_dict.running) =>
        /\ Failed(vor') =>
               /\ NothingDrawn(window')
               /\ pc' = "input"
               /\ frames' = frames + 1
               /\ UNCHANGED <<centers, color_center, booleans_dict, palette>>
        /\ (Cardinality(DOMAIN centers) <= 1
                /\ (booleans_dict.fill \/ booleans_dict.outline)) =>
               /\ Failed(vor')
               /\ NothingDrawn(window')
               /\ pc' = "input"]_vars

\* C7 witness: the frame before this one failed with one center beside the
\* color center and drew nothing, and the loop has come round to the next
\* frame, which has failed as well.
C7_Witness ==
    /\ pc = "input"
    /\ frames >= 2
    /\ Cardinality(DOMAIN centers) = 1
    /\ vor = QhullError
    /\ NothingDrawn(window)
    /\ booleans_dict.fill
    /\ last.events = <<>>

FiniteCount(reg) == Cardinality({k \in 1..Len(reg) : reg[k] # Infinity})
OnceAtMost(regions) ==
    \A i \in 1..Len(regions) :
        Cardinality({k \in 1..Len(regions[i]) : regions[i][k] = Infinity}) <= 1
\* The polygons of the frame in the window w, as they were outlined or
\* filled.
Shapes(w, b) ==
    IF b.outline THEN w.outline ELSE [i \in 1..Len(w.fill) |-> w.fill[i].shape]
PrimaryFrame ==
    /\ pc = "draw"
    /\ booleans_dict.running
    /\ vor'.kind = "Voronoi"
    /\ OnceAtMost(vor'.data)

\* C9 as the specification has it: a region is kept exactly when it has more
\* than 3 vertices after the removal of the sentinel, or exactly 3 vertices
\* and no sentinel.
C9_KeptAsStated ==
    [][PrimaryFrame =>
        \A i \in 1..Len(vor'.data) :
            LET reg  == vor'.data[i]
                kept == \E k \in 1..Len(Shapes(window', booleans_dict)) :
                            Shapes(window', booleans_dict)[k].center = i - 1
            IN  kept <=> \/ FiniteCount(reg) > 3
                         \/ (Len(reg) = 3 /\ FiniteCount(reg) = 3)]_vars

\* C9: for a region list with at most one sentinel -1 per region, every
\* polygon that draw_voronoi_cells() draws has at least 3 vertices, all of
\* them finite, and a region is kept exactly when it has at least 3 finite
\* vertices: more than 3 entries, the sentinel counted, or exactly 3 and no
\* sentinel.
C9_PolygonsKept ==
    [][PrimaryFrame =>
        LET shapes == Shapes(window', booleans_dict)
        IN  /\ \A k \in 1..Len(shapes) :
                   /\ Len(shapes[k].poly) >= 3
                   /\ \A j \in 1..Len(shapes[k].poly) :
                          shapes[k].poly[j] # Infinity
            /\ \A i \in 1..Len(vor'.data) :
                   LET reg == vor'.data[i]
                   IN  (\E k \in 1..Len(shapes) : shapes[k].center = i - 1)
                           <=> FiniteCount(reg) >= 3
            /\ \A i \in 1..Len(vor'.data) :
                   LET reg == vor'.data[i]
                   IN  FiniteCount(reg) >= 3 <=>
                           \/ Len(reg) > 3
                           \/ (Len(reg) = 3 /\ FiniteCount(reg) = 3)]_vars

\* C9 witness: a frame has drawn the unbounded region <<-1, 0, 1, 2>> as the
\* triangle of its three finite vertices, and has not drawn <<-1, 0, 1>>.
C9_Witness ==
    /\ pc = "input"
    /\ vor.kind = "Voronoi"
    /\ Len(vor.data) >= 4
    /\ vor.data[2] = <<-1, 0, 1>>
    /\ vor.data[4] = <<-1, 0, 1, 2>>
    /\ \E k \in 1..Len(window.outline) :
           window.outline[k] = [center |-> 3, poly |-> <<0, 1, 2>>]
    /\ \A k \in 1..Len(window.outline) : window.outline[k].center # 1

----------------------------------------------------------------------------
(* The toggle keys, SpecKeys *)

\* A key that keydown_dict, wasd and the space test do not know: x.
K_x == 120
ToggleKeys == {K_v, K_b, K_f, K_o, K_h, K_ESCAPE}
KeyEvents == {Event(KEYDOWN, k) : k \in ToggleKeys \cup {K_x}}

NextKeys ==
    \/ Post(KeyEvents)
    \/ LoopTop({}, OneRegion, OneSimplex)
    \/ GetUserInput(Mice, ResetLocs)
    \/ MoveCenters

SpecKeys == Init /\ [][NextKeys]_vars

\* The flag that the help text and the names of the toggles give each key.
FlagOf(key) ==
    CASE key = K_v      -> "voronoi_dual"
      [] key = K_b      -> "bouncing"
      [] key = K_f      -> "fill"
      [] key = K_o      -> "outline"
      [] key = K_h      -> "centers_visible"
      [] key = K_ESCAPE -> "show_help"
      [] OTHER          -> "none"
\* The number of presses in events that belong to flag.
Presses(events, flag) ==
    Cardinality({i \in 1..Len(events) :
        events[i].type = KEYDOWN /\ FlagOf(events[i].code) = flag})

\* C11: a key-down of v, b, f, o, h or esc flips voronoi_dual, bouncing,
\* fill, outline, centers_visible or show_help and nothing else; two presses
\* of the same key give the state back; a key-down of a key without a binding
\* changes nothing.  For a frame that reads only such key-downs: every flag
\* is flipped as often as its key was pressed, palette, centers and color
\* center are what they were.
C11_Toggles ==
    [][(pc = "input" /\ pc' = "move") =>
        /\ UNCHANGED <<palette, centers, color_center>>
        /\ DOMAIN booleans_dict' = DOMAIN booleans_dict
        /\ \A flag \in DOMAIN booleans_dict :
               booleans_dict'[flag] =
                   IF Presses(queue, flag) % 2 = 1 THEN ~booleans_dict[flag]
                   ELSE booleans_dict[flag]]_vars

\* C11 witness: a frame has read a press of esc and a press of x; the help
\* is off, the other flags are as at the start.
C11_Witness ==
    /\ pc = "move"
    /\ last.events = <<Event(KEYDOWN, K_ESCAPE), Event(KEYDOWN, K_x)>>
    /\ booleans_dict = [InitialBooleans EXCEPT !.show_help = FALSE]

----------------------------------------------------------------------------
(* voronoi.py: the same variables hold the state of its game(); centers is a
   list, the flags are the nonlocal booleans, and its operators carry the
   prefix voronoi_ where soap.py has a function of the same name *)

\* The window of voronoi.py is 1000 pixels wide and high; the bounce margin
\* of its move_centers() is written out as 15 and 985.
voronoi_window == 1000
VoronoiU == voronoi_window * Scale
voronoi_margin == 15
voronoi_cap == 15
VoronoiCapU == voronoi_cap * Scale

\* current_velocity[current_velocity > 15] = 15.0 and [... < -15] = -15.0
voronoi_clamp(a) ==
    IF a > VoronoiCapU THEN VoronoiCapU
    ELSE IF a < -VoronoiCapU THEN -VoronoiCapU
    ELSE a

\* friction(current_velocity), per component
voronoi_friction(v) ==
    [a \in 1..2 |-> voronoi_clamp(Jitter(FMul(v[a], fric)))]

\* decel_and_move(center)
decel_and_move(c) ==
    [loc |-> VecAdd(c.loc, voronoi_friction(c.velocity)),
     velocity |-> voronoi_friction(c.velocity)]

\* (center.loc < 15) | (center.loc > 985)
voronoi_mask(loc) ==
    [a \in 1..2 |-> \/ loc[a] < voronoi_margin * Scale
                    \/ loc[a] > VoronoiU - voronoi_margin * Scale]

\* The bouncing branch.
voronoi_bounce(cs) ==
    [i \in 1..Len(cs) |->
        decel_and_move([cs[i] EXCEPT
            !.velocity = Reverse(@, voronoi_mask(cs[i].loc))])]

\* oob: the list comprehension names a center once for every coordinate
\* that is not strictly inside 0 < coor < 1000.  The centers are named by
\* their index in the list.
voronoi_out(x) == ~(0 < x /\ x < VoronoiU)
RECURSIVE voronoi_oob(_, _)
voronoi_oob(cs, i) ==
    IF i > Len(cs) THEN <<>>
    ELSE (IF voronoi_out(cs[i].loc[1]) THEN <<i>> ELSE <<>>)
         \o (IF voronoi_out(cs[i].loc[2]) THEN <<i>> ELSE <<>>)
         \o voronoi_oob(cs, i + 1)

\* for center in oob: centers.remove(center).  alive lists the centers still
\* in the list; list.remove raises ValueError for one that is not.
RECURSIVE voronoi_remove(_, _)
voronoi_remove(alive, oob) ==
    IF oob = <<>> THEN [alive |-> alive, raised |-> None]
    ELSE IF \E k \in 1..Len(alive) : alive[k] = Head(oob)
    THEN voronoi_remove(SelectSeq(alive, LAMBDA k : k # Head(oob)), Tail(oob))
    ELSE [alive |-> alive, raised |-> "ValueError"]

\* The non-bouncing branch: the removals, and decel_and_move for the centers
\* left unless a removal has raised.
voronoi_delete(cs) ==
    LET r == voronoi_remove([i \in 1..Len(cs) |-> i], voronoi_oob(cs, 1))
    IN  [centers |-> [k \in 1..Len(r.alive) |->
                         IF r.raised = None THEN decel_and_move(cs[r.alive[k]])
                         ELSE cs[r.alive[k]]],
         raised |-> r.raised]

\* The four tests of the color center, in the order of the code; the test
\* for RIGHT reads velocity[1] as the code does.
StepUp(v, b) ==
    IF b.UP /\ v[2] > -VoronoiCapU THEN <<v[1], Fl(v[2] - KeyDelta)>> ELSE v
StepDown(v, b) ==
    IF b.DOWN /\ v[2] < VoronoiCapU THEN <<v[1], Fl(v[2] + KeyDelta)>> ELSE v
StepLeft(v, b) ==
    IF b.LEFT /\ v[1] > -VoronoiCapU THEN <<Fl(v[1] - KeyDelta), v[2]>> ELSE v
StepRight(v, b) ==
    IF b.RIGHT /\ v[2] < VoronoiCapU THEN <<Fl(v[1] + KeyDelta), v[2]>> ELSE v
voronoi_steer(v, b) == StepRight(StepLeft(StepDown(StepUp(v, b), b), b), b)

\* color_center.loc %= 1000
voronoi_wrap(c) ==
    [c EXCEPT !.loc = <<Remainder(@[1], VoronoiU), Remainder(@[2], VoronoiU)>>]

\* Movement for color center
voronoi_move_color(c, b) ==
    voronoi_wrap(
        IF ~(b.UP \/ b.DOWN \/ b.LEFT \/ b.RIGHT) THEN decel_and_move(c)
        ELSE [loc |-> VecAdd(c.loc, voronoi_steer(c.velocity, b)),
              velocity |-> voronoi_steer(c.velocity, b)])

\* move_centers() of voronoi.py: the new centers and color center, and the
\* exception that leaves it, if any.
voronoi_move_centers(st) ==
    LET r == IF st.booleans_dict.BOUNCING
             THEN [centers |-> voronoi_bounce(st.centers), raised |-> None]
             ELSE voronoi_delete(st.centers)
    IN  [centers |-> r.centers,
         color_center |-> IF r.raised = None
                          THEN voronoi_move_color(st.color_center,
                                                  st.booleans_dict)
                          ELSE st.color_center,
         raised |-> r.raised]

\* poke() of voronoi.py.  poke_mag = 100000 / distance**2, at most 200: below
\* VoronoiPokeNear pixels the quotient is above 200 and the limit is taken.
voronoi_poke_limit == 200
VoronoiPokeNear == 22
poke_mag(distance) ==
    IF distance < VoronoiPokeNear * Scale THEN voronoi_poke_limit * Scale
    ELSE LET dm == Mantissa(distance)
             sq == Fl(dm * dm)
             q  == MantDiv(Mantissa(PokeConst), Mantissa(sq))
             m  == FlShift(q[1], q[2] + Exp(PokeConst) - Exp(sq)
                                      - 2 * Exp(distance) + 3 * Frac)
         IN  IF m > voronoi_poke_limit * Scale THEN voronoi_poke_limit * Scale
             ELSE m

\* poke_mag * d / distance for one component d >= 0 of the difference.
voronoi_poke_part(mag, d, distance) ==
    IF d = 0 THEN 0
    ELSE LET pm == Fl(Mantissa(mag) * Mantissa(d))
             q  == MantDiv(Mantissa(pm), Mantissa(distance))
         IN  FlShift(q[1], q[2] + Exp(pm) + Exp(mag) + Exp(d) - Exp(distance))

\* center.velocity += poke_mag * difference/distance, for one center.  At
\* distance 0 the difference is 0 and so is the product.
voronoi_poked(c, loc) ==
    LET difference == VecSub(c.loc, loc)
        distance   == norm(difference)
    IN  [c EXCEPT !.velocity =
            [a \in 1..2 |->
                Fl(@[a] + Sgn(difference[a])
                            * voronoi_poke_part(poke_mag(distance),
                                                Abs(difference[a]), distance))]]

voronoi_poke(st, loc) ==
    [st EXCEPT !.centers = [i \in 1..Len(@) |-> voronoi_poked(@[i], loc)]]

\* BOUNCING = FILL = OUTLINE = HELP = running = True
\* CENTERS_VISIBLE = UP = DOWN = LEFT = RIGHT = False
VoronoiBooleans ==
    [BOUNCING |-> TRUE, FILL |-> TRUE, OUTLINE |-> TRUE, HELP |-> TRUE,
     running |-> TRUE, CENTERS_VISIBLE |-> FALSE, UP |-> FALSE,
     DOWN |-> FALSE, LEFT |-> FALSE, RIGHT |-> FALSE]

\* reset() of voronoi.py: a list of number_of_centers centers at rest.
voronoi_reset(st, rnd) ==
    [st EXCEPT !.centers = [i \in 1..number_of_centers |-> Center(rnd[i], Zero2)]]

\* KEYDOWN_dict.get(event.key, no_key)()
KEYDOWN_dict(st, key, rnd) ==
    CASE key = K_r      -> voronoi_reset(st, rnd)
      [] key = K_h      -> [st EXCEPT !.booleans_dict.CENTERS_VISIBLE = ~@]
      [] key = K_b      -> [st EXCEPT !.booleans_dict.BOUNCING = ~@]
      [] key = K_f      -> [st EXCEPT !.booleans_dict.FILL = ~@]
      [] key = K_o      -> [st EXCEPT !.booleans_dict.OUTLINE = ~@]
      [] key = K_UP     -> next_palette(st)
      [] key = K_ESCAPE -> [st EXCEPT !.booleans_dict.HELP = ~@]
      [] OTHER          -> st

\* color_move_start(key) and color_move_stop(key) of voronoi.py
voronoi_color_move(st, key, value) ==
    IF key = K_w THEN [st EXCEPT !.booleans_dict.UP = value]
    ELSE IF key = K_a THEN [st EXCEPT !.booleans_dict.LEFT = value]
    ELSE IF key = K_s THEN [st EXCEPT !.booleans_dict.DOWN = value]
    ELSE IF key = K_d THEN [st EXCEPT !.booleans_dict.RIGHT = value]
    ELSE st

\* The body of the for loop of user_input(), for one event.
voronoi_event(st, event, mouse, rnd) ==
    IF event.type = QUIT
    THEN [st EXCEPT !.booleans_dict.running = FALSE]
    ELSE IF event.type = KEYDOWN
    THEN IF event.code \in wasd
         THEN voronoi_color_move(KEYDOWN_dict(st, event.code, rnd),
                                 event.code, TRUE)
         ELSE KEYDOWN_dict(st, event.code, rnd)
    ELSE IF event.type = KEYUP
    THEN IF event.code \in wasd
         THEN voronoi_color_move(st, event.code, FALSE)
         ELSE st
    ELSE IF event.type = MOUSEBUTTONDOWN
    THEN IF event.code = 1 THEN voronoi_poke(st, mouse)
         ELSE IF event.code = 3
         THEN [st EXCEPT !.centers = Append(@, Center(mouse, Zero2))]
         ELSE st
    ELSE st

\* user_input(): the events in arrival order.
RECURSIVE user_input(_, _, _, _)
user_input(st, events, mouse, rnd) ==
    IF events = <<>> THEN st
    ELSE user_input(voronoi_event(st, Head(events), mouse, rnd), Tail(events),
                    mouse, rnd)

\* POINTS = [center.loc for center in centers]
POINTS(st) == [i \in 1..Len(st.centers) |-> st.centers[i].loc]

\* draw_voronoi_cells() of voronoi.py, given what Voronoi(POINTS) did: the
\* bare except returns on every exception.
voronoi_draw_cells(w, st, result) ==
    IF result.kind = "Voronoi"
    THEN [w EXCEPT
            !.fill = IF st.booleans_dict.FILL
                     THEN Colored(Polygons(result.data), st.palette) ELSE @,
            !.outline = IF st.booleans_dict.OUTLINE
                        THEN Polygons(result.data) ELSE @]
    ELSE w

\* draw_centers() and draw_help() of voronoi.py
voronoi_draw_centers(w, st) ==
    [w EXCEPT !.centers = {Pixel(st.centers[i].loc) : i \in 1..Len(st.centers)}
                          \cup {Pixel(st.color_center.loc)}]
voronoi_draw_help(w) == [w EXCEPT !.help = TRUE]

\* if CENTERS_VISIBLE: draw_centers()   and   if HELP: draw_help()
voronoi_draw_centers_if(flag, w, st) ==
    IF flag THEN voronoi_draw_centers(w, st) ELSE w
voronoi_draw_help_if(flag, w) == IF flag THEN voronoi_draw_help(w) ELSE w

\* The drawing part of one iteration of the main loop of voronoi.py.
voronoi_draw(st, result) ==
    voronoi_draw_help_if(
        st.booleans_dict.HELP,
        voronoi_draw_centers_if(
            st.booleans_dict.CENTERS_VISIBLE,
            IF st.booleans_dict.OUTLINE \/ st.booleans_dict.FILL
            THEN voronoi_draw_cells(Blank, st, result) ELSE Blank,
            st))

\* while running: the test, and the body up to pygame.display.update().
VoronoiLoopTop(fail, regionLists) ==
    /\ pc = "draw"
    /\ IF booleans_dict.running
       THEN /\ frames < MaxFrames
            /\ \E result \in
                   IF booleans_dict.OUTLINE \/ booleans_dict.FILL
                   THEN Geometry(POINTS(State), fail,
                                 {Voronoi(x) : x \in regionLists})
                   ELSE {NoCall} :
                   /\ vor' = result
                   /\ window' = voronoi_draw(State, result)
            /\ frames' = frames + 1
            /\ pc' = "input"
       ELSE /\ pc' = "done"
            /\ UNCHANGED <<window, vor, frames>>
    /\ UNCHANGED <<centers, color_center, booleans_dict, palette, last, queue,
                   posted>>

\* user_input(): reads the whole queue.
VoronoiUserInput(mice, locs) ==
    /\ pc = "input"
    /\ \E mouse \in IF HasMouse(queue) THEN mice
                    ELSE {CHOOSE m \in mice : TRUE} :
       \E rnd \in IF HasReset(queue) THEN Placements(locs)
                  ELSE {[i \in 1..number_of_centers |-> Zero2]} :
           \E st \in {user_input(State, queue, mouse, rnd)} :
               /\ centers' = st.centers
               /\ color_center' = st.color_center
               /\ booleans_dict' = st.booleans_dict
               /\ palette' = st.palette
               /\ last' = [last EXCEPT !.events = queue, !.mouse = mouse]
    /\ queue' = <<>>
    /\ pc' = "move"
    /\ UNCHANGED <<window, vor, frames, posted>>

\* move_centers(), the last statement of the loop body; an exception that
\* leaves it leaves game() as well.
VoronoiMoveCenters ==
    /\ pc = "move"
    /\ \E r \in {voronoi_move_centers(State)} :
           /\ centers' = r.centers
           /\ color_center' = r.color_center
           /\ pc' = IF r.raised = None THEN "draw" ELSE "raised"
    /\ \E oob \in {IF booleans_dict.BOUNCING THEN <<>>
                   ELSE voronoi_oob(centers, 1)} :
           last' = [last EXCEPT !.oob = oob, !.mask = <<>>]
    /\ UNCHANGED <<booleans_dict, palette, window, vor, queue, frames, posted>>

\* ---------------------------------------------------------------------
\* SpecVoronoi: the main loop of voronoi.py
\* ---------------------------------------------------------------------
\* Two of the places randint(0, 999) can give: next to the corner, and the
\* middle of the window.
VoronoiLocs == <<Px(1, 1), Px(500, 500)>>
\* Cursor positions: the corner pixel, and the pixel (2, 2).
VoronoiMice == {Px(0, 0), Px(2, 2)}
VoronoiEvents ==
    {Event(MOUSEBUTTONDOWN, 1), Event(MOUSEBUTTONDOWN, 3),
     Event(KEYDOWN, K_b), Event(KEYDOWN, K_d)}

\* centers = []; reset() and the game variables.
VoronoiStart(locs) ==
    \E rnd \in Placements(locs) :
        InitAt([i \in 1..number_of_centers |-> Center(rnd[i], Zero2)],
               Center(Px(500, 500), Zero2), VoronoiBooleans, palettes[1])

\* The color center after n more calls of move_centers() with RIGHT set; a
\* call that changes nothing is followed by calls that change nothing.
HeldFrames == 30
RECURSIVE HoldRight(_, _)
HoldRight(c, n) ==
    IF n = 0 THEN c
    ELSE LET next == voronoi_move_color(
                         c, [VoronoiBooleans EXCEPT !.RIGHT = TRUE])
         IN  IF next.velocity = c.velocity /\ next.loc = c.loc THEN c
             ELSE HoldRight(next, n - 1)

\* The state at the test of the while when d was pressed during the first
\* frame and has been held for HeldFrames frames since, with no other
\* event: the centers rest where reset() put them, the last frame drew
\* what the geometry call allowed.
RightHeld(locs) ==
    \E rnd \in Placements(locs) :
    \E st \in {[centers |-> [i \in 1..number_of_centers |->
                                Center(rnd[i], Zero2)],
                color_center |-> HoldRight(Center(Px(500, 500), Zero2),
                                           HeldFrames),
                booleans_dict |-> [VoronoiBooleans EXCEPT !.RIGHT = TRUE],
                palette |-> palettes[1]]} :
    \E result \in Geometry(POINTS(st), {QhullError},
                           {Voronoi(x) : x \in OneRegion}) :
        /\ centers = st.centers
        /\ color_center = st.color_center
        /\ booleans_dict = st.booleans_dict
        /\ palette = st.palette
        /\ window = voronoi_draw(st, result)
        /\ vor = result
        /\ last = [events |-> <<>>, mouse |-> Zero2, oob |-> <<>>,
                   mask |-> <<>>]
        /\ pc = "draw"
        /\ queue = <<>>
        /\ frames = 0
        /\ posted = 0

InitVoronoi == VoronoiStart(VoronoiLocs) \/ RightHeld(VoronoiLocs)

NextVoronoi ==
    \/ Post(VoronoiEvents)
    \/ VoronoiLoopTop({QhullError}, OneRegion)
    \/ VoronoiUserInput(VoronoiMice, VoronoiLocs)
    \/ VoronoiMoveCenters

SpecVoronoi == InitVoronoi /\ [][NextVoronoi]_vars

\* C12: in voronoi.py each component of the color center's velocity is
\* within [-15, 15] after every call of move_centers(), also while
\* directional flags are held.
C12_ColorCenterCapped ==
    [][pc = "move" =>
          \A a \in 1..2 : /\ -VoronoiCapU <= color_center'.velocity[a]
                          /\ color_center'.velocity[a] <= VoronoiCapU]_vars

\* The color center moves right faster than the cap, only RIGHT being held.
C12_PastTheCap ==
    /\ pc = "draw"
    /\ booleans_dict.RIGHT
    /\ ~(booleans_dict.UP \/ booleans_dict.DOWN \/ booleans_dict.LEFT)
    /\ color_center.velocity[1] > VoronoiCapU

\* A center that is strictly outside the window on some axis.
VoronoiOutside(loc) ==
    \E a \in 1..2 : loc[a] < 0 \/ loc[a] > VoronoiU

\* C13: in voronoi.py with BOUNCING off, move_centers() does not raise; it
\* removes every center with a coordinate outside the arena, a center out
\* on both axes included, and decelerates and moves every center it keeps
\* exactly once.
C13_DeleteCompletes ==
    [][(pc = "move" /\ ~booleans_dict.BOUNCING) =>
          /\ pc' = "draw"
          /\ \E kept \in SUBSET (1..Len(centers)) :
                /\ \A i \in 1..Len(centers) :
                       VoronoiOutside(centers[i].loc) => i \notin kept
                /\ centers' =
                       [k \in 1..Cardinality(kept) |->
                           decel_and_move(centers[
                               CHOOSE i \in kept :
                                   Cardinality({j \in kept : j < i}) = k - 1])]
      ]_vars

\* move_centers() has raised on a center poked out past the corner.
C13_RaisedOnCorner ==
    /\ pc = "raised"
    /\ ~booleans_dict.BOUNCING
    /\ \E i \in 1..Len(centers) :
          /\ centers[i].loc[1] < 0
          /\ centers[i].loc[2] < 0
          /\ \E j \in 1..(Len(last.oob) - 1) :
                last.oob[j] = i /\ last.oob[j + 1] = i

\* ---------------------------------------------------------------------
\* SpecBounce: soap.py with bouncing left on
\* ---------------------------------------------------------------------
\* Cursor positions: the pixel next to the left edge, and the one on it.
BounceMice == {Px(1, 400), Px(0, 400)}
\* Pokes, creations and resets; no event touches the bouncing flag.
BounceEvents ==
    {Event(MOUSEBUTTONDOWN, 1), Event(MOUSEBUTTONDOWN, 3), Event(KEYDOWN, K_r)}

NextBounce ==
    \/ Post(BounceEvents)
    \/ LoopTop({}, OneRegion, OneSimplex)
    \/ GetUserInput(BounceMice, ResetLocs)
    \/ MoveCenters

SpecBounce == Init /\ [][NextBounce]_vars

\* C14: in soap.py, while bouncing stays on, every center's position is
\* within 0 <= x <= arena width and 0 <= y <= arena height after any
\* sequence of pokes, creations inside the arena, resets and frames, so
\* that move_centers() with bouncing switched off would delete no center.
C14_StaysInArena ==
    booleans_dict.bouncing =>
        /\ \A i \in DOMAIN centers : InArena(centers[i].loc)
        /\ Locals([State EXCEPT !.booleans_dict.bouncing = FALSE]).oob = {}

\* A center created a pixel from the left wall and poked away from the wall
\* has been turned round by the bounce and is now left of the wall.
C14_ThroughTheWall ==
    /\ pc = "draw"
    /\ booleans_dict.bouncing
    /\ \E i \in DOMAIN centers \cap DOMAIN last.mask :
          /\ last.mask[i][1]
          /\ centers[i].velocity[1] < 0
          /\ centers[i].loc[1] < 0
          /\ centers[i].loc[1] - centers[i].velocity[1] = Scale

\* ---------------------------------------------------------------------
\* SpecRest: soap.py left alone after the events of the first frame
\* ---------------------------------------------------------------------
\* The cursor, 100 pixels from the left edge, a pixel below the middle line.
RestMice == {Px(100, 401)}
\* Pokes and the bouncing key; no direction key.
RestEvents == {Event(MOUSEBUTTONDOWN, 1), Event(KEYDOWN, K_b)}

\* Events arrive until the first get_user_input() has run, none after it.
PostEarly(events) == frames <= 1 /\ Post(events)

\* One iteration of the main loop up to pygame.display.update(), as LoopTop;
\* the frames are counted up to MaxFrames and no further, so that the loop
\* runs for as long as it takes.
RestLoopTop(fail, regionLists, simplexLists) ==
    /\ pc = "draw"
    /\ IF booleans_dict.running
       THEN \E result \in Results(State, fail, regionLists, simplexLists) :
            \E d \in {DrawAll(State, result)} :
                /\ vor' = result
                /\ window' = d.window
                /\ frames' = IF d.raised = None /\ frames < MaxFrames
                             THEN frames + 1 ELSE frames
                /\ pc' = IF d.raised = None THEN "input" ELSE "raised"
       ELSE /\ pc' = "done"
            /\ UNCHANGED <<window, vor, frames>>
    /\ UNCHANGED <<centers, color_center, booleans_dict, palette, last, queue,
                   posted>>

NextRest ==
    \/ PostEarly(RestEvents)
    \/ RestLoopTop({}, OneRegion, OneSimplex)
    \/ GetUserInput(RestMice, ResetLocs)
    \/ MoveCenters

\* The statement the loop is at returns and the next one starts.
Goes(from, to) == pc = from /\ pc' = to

\* The loop goes on by itself: the drawing part, get_user_input() and
\* move_centers() each run to their end when the loop is at them (the only
\* step from "input" to "move" is GetUserInput, the only one from "move" to
\* "draw" is MoveCenters, and both can always be taken); the arrival of an
\* event is left to the user.
SpecRest ==
    /\ Init
    /\ [][NextRest]_vars
    /\ WF_vars(RestLoopTop({}, OneRegion, OneSimplex))
    /\ WF_pc(Goes("input", "move"))
    /\ WF_pc(Goes("move", "draw"))

\* Every center that is left and the color center have velocity zero.
AllAtRest == \A c \in AllCenters : c.velocity = Zero2
\* No event is waiting and none will arrive.
InputOver == queue = <<>> /\ frames > 1

\* C15: in soap.py, when no further event arrives and no direction flag is
\* set, after finitely many frames every remaining center and the color
\* center have velocity exactly zero; from then on the velocities stay zero
\* and the positions stay constant, and with bouncing on the set of centers
\* is unchanged.
C15_ComesToRest ==
    /\ <>[](AllAtRest /\ ~Steering)
    /\ [][(InputOver /\ AllAtRest) =>
             /\ color_center' = color_center
             /\ DOMAIN centers' \subseteq DOMAIN centers
             /\ \A i \in DOMAIN centers' : centers'[i] = centers[i]
             /\ booleans_dict.bouncing => centers' = centers]_vars

\* C15 witness: the simulation has come to rest with bouncing on, after a
\* poke that moved the color center and the centers away from where they
\* started.
C15_Witness ==
    /\ pc = "draw"
    /\ InputOver
    /\ AllAtRest
    /\ booleans_dict.bouncing
    /\ color_center.loc # <<WindowU \div 2, WindowU \div 2>>
    /\ \E i \in DOMAIN centers : centers[i].loc[1] > WindowU \div 2

====
